---- MODULE Spec2Model ----
(***************************************************************************)
(* A model of the renderer-side library model of unnamed-note-app:         *)
(* class Model (node / file / tag stores, directory helpers, loadLibrary   *)
(* and the save coordinator) and createTree of renderer/tree.ts.           *)
(*                                                                         *)
(* Handlers are written as operators over a record m that stands for       *)
(* `this` together with the host side (the bridge, the timer queue and the *)
(* microtask queue); an action applies one handler, or one step of an      *)
(* async handler, to the current state.  Strings are sequences of          *)
(* one-character strings.                                                  *)
(***************************************************************************)
EXTENDS Integers, Sequences, FiniteSets, TLC

\* ------------------------------------------------------------------ bounds
\* save() calls logged in one busy period of the save coordinator
MaxSaves == 4

\* nodes created in one run
MaxNodes == 3

\* File records in the store
MaxFiles == 2

\* tags created in one run
MaxTags == 1

\* createDirectory calls kept at a time (in progress or completed)
MaxDirCalls == 2

\* loadLibrary calls awaiting the host at a time
MaxLoads == 2

\* ----------------------------------------------------------- program values
LIBRARY_VERSION == 3

\* null / undefined for ids (promise handles, node ids, file ids)
NULL == 0

\* ReservedID.Trash (ids are numbers here; no uuid is negative)
Trash == -1

\* an undefined string-valued property
UndefinedName == <<"undefined">>

\* ids a caller may give its File records
FileIDs == {1, 2}

\* directory names given by callers of addDirectoryNode
DirNames == {<<"a">>, <<"b">>}

DirCallSlots == 1..MaxDirCalls

\* a slot no createDirectory call has used
NoDirCall ==
  [pc |-> "idle", path |-> <<>>, dirs |-> <<>>, parentID |-> NULL,
   start |-> <<>>, own |-> <<>>, end |-> <<>>, value |-> NULL]

\* Status | undefined
NoStatus == [id |-> NULL, message |-> "undefined"]

NoError == "none"

VARIABLES nodes, files, tags, saving, savePromise, status, writes, calls, ready, timers, uuid, created,
          dirCalls, loading, ret

vars ==
  <<nodes, files, tags, saving, savePromise, status, writes, calls, ready, timers, uuid, created,
    dirCalls, loading, ret>>

\* ------------------------------------------------------------------ `this`
\* The Model object and the host around it, as one record.
\*   writes : the bridge.writeLibrary calls of this busy period, in start order;
\*            write w backs the promise writeLibrary(..).then(..) numbered w,
\*            and `last` marks the write the host completed most recently
\*   calls  : the save() calls of this busy period, in call order
\*   ready  : the microtask queue (save() calls whose awaited promise settled)
\*   timers : the setTimeout queue (all timers have the same delay: FIFO)
\*   uuid   : the status ids issued in this busy period (each one is new)
\*   created: the nodes created so far (each node id is new)
\*   dirCalls: the createDirectory calls, one slot per call in progress or
\*            last completed, with the locals of the call (dirs, parentID)
\*   loading: the loadLibrary calls awaiting bridge.readLibrary()
\*   exc, removed : what the running handler has thrown and the
\*            bridge.removeFile requests it has made
\*   value, path, tree : what it returns (a node id, a string, a tree)
This ==
  [nodes |-> nodes, files |-> files, tags |-> tags, saving |-> saving,
   savePromise |-> savePromise, status |-> status, writes |-> writes,
   calls |-> calls, ready |-> ready, timers |-> timers, uuid |-> uuid, created |-> created,
   dirCalls |-> dirCalls, loading |-> loading,
   exc |-> NoError, removed |-> <<>>, value |-> NULL, path |-> <<>>, tree |-> <<>>]

Apply(m) ==
  /\ nodes' = m.nodes
  /\ files' = m.files
  /\ tags' = m.tags
  /\ saving' = m.saving
  /\ savePromise' = m.savePromise
  /\ status' = m.status
  /\ writes' = m.writes
  /\ calls' = m.calls
  /\ ready' = m.ready
  /\ timers' = m.timers
  /\ uuid' = m.uuid
  /\ created' = m.created
  /\ dirCalls' = m.dirCalls
  /\ loading' = m.loading

\* What a finished handler call leaves for its caller to see.
Outcome(op, arg, m) ==
  [op |-> op, arg |-> arg, exc |-> m.exc, removed |-> m.removed,
   value |-> m.value, path |-> m.path, tree |-> m.tree]

PendingWrites(m) == {w \in DOMAIN m.writes : m.writes[w].state = "pending"}

\* Nothing of the save coordinator is left to happen.
Quiescent(m) ==
  /\ m.savePromise = NULL
  /\ PendingWrites(m) = {}
  /\ \A c \in DOMAIN m.calls : m.calls[c].pc = "done"
  /\ m.ready = <<>>
  /\ m.timers = <<>>
  /\ m.status = NoStatus

\* The logs of a busy period (calls, writes, issued status ids) are kept
\* until the next call arrives at a quiescent coordinator.
Fresh(m) ==
  IF Quiescent(m) THEN [m EXCEPT !.calls = <<>>, !.writes = <<>>, !.uuid = 0] ELSE m

\* Room in the log for k more save() calls.
CanCall(k) == Quiescent(This) \/ Len(calls) + k <= MaxSaves

\* ------------------------------------------------------------------ status
setStatus(m, message) ==
  [m EXCEPT !.uuid = @ + 1, !.status = [id |-> m.uuid + 1, message |-> message]]

clearStatus(m) == [m EXCEPT !.status = NoStatus]

\* -------------------------------------------------------------------- save
\* JSON.stringify({nodes, files, tags, version})
stringify(m) ==
  [nodes |-> m.nodes, files |-> m.files, tags |-> m.tags, version |-> LIBRARY_VERSION]

\* save() from `this.saving.set(true)` to its end, run by call c: it starts
\* the host write, stores the derived promise, publishes "Saved!" and
\* schedules the delayed clear; it does not await the write.
saveBody(m, c) ==
  LET m1 == setStatus([m EXCEPT !.saving = TRUE], "Saving...")
      w == Len(m1.writes) + 1
      m2 == [m1 EXCEPT !.writes = Append(@, [by |-> c, state |-> "pending", last |-> FALSE,
                                             doc |-> stringify(m1)]),
                       !.savePromise = w]
      m3 == setStatus(m2, "Saved!")
  IN [m3 EXCEPT !.timers = Append(@, m3.status.id),
                !.calls[c].statusID = m3.status.id,
                !.calls[c].pc = "done"]

\* A save() that returns at once while a write is stored, as a coordinator
\* guarded by the saving flag would.
save_dropWhenBusy(m) ==
  LET c == Len(m.calls) + 1 IN
  IF m.savePromise # NULL
    THEN [m EXCEPT !.calls = Append(@, [pc |-> "done", awaited |-> m.savePromise, statusID |-> NULL])]
    ELSE saveBody([m EXCEPT !.calls = Append(@, [pc |-> "run", awaited |-> NULL, statusID |-> NULL])], c)

\* save() up to its first suspension: with a promise stored the call awaits
\* it (one `if`, no loop), otherwise it runs on synchronously.  Awaiting a
\* promise that has already rejected queues the continuation at once.
save(m) ==
  LET c == Len(m.calls) + 1 IN
  IF m.savePromise # NULL
    THEN IF m.writes[m.savePromise].state = "failed"
           THEN [m EXCEPT !.calls = Append(@, [pc |-> "ready", awaited |-> m.savePromise, statusID |-> NULL]),
                          !.ready = Append(@, c)]
           ELSE [m EXCEPT !.calls = Append(@, [pc |-> "await", awaited |-> m.savePromise, statusID |-> NULL])]
    ELSE saveBody([m EXCEPT !.calls = Append(@, [pc |-> "run", awaited |-> NULL, statusID |-> NULL])], c)

\* The continuation of the save() call at the head of the microtask queue:
\* the await throws when the awaited promise has rejected (the call's own
\* promise rejects), otherwise the call runs on.
resumeSave(m) ==
  LET c == Head(m.ready)
      m1 == [m EXCEPT !.ready = Tail(@)]
  IN IF m1.writes[m1.calls[c].awaited].state = "failed"
       THEN [m1 EXCEPT !.calls[c].pc = "rejected"]
       ELSE saveBody(m1, c)

\* The save() calls suspended on promise w, in the order they subscribed.
RECURSIVE Awaiting(_, _, _)
Awaiting(m, w, c) ==
  IF c > Len(m.calls) THEN <<>>
  ELSE (IF m.calls[c].pc = "await" /\ m.calls[c].awaited = w THEN <<c>> ELSE <<>>)
       \o Awaiting(m, w, c + 1)

\* The .then callback of write w, then the wake-up of the calls awaiting the
\* derived promise: their continuations are queued as microtasks.
writeDone(m, w) ==
  LET woken == Awaiting(m, w, 1) IN
  [m EXCEPT !.writes = [x \in DOMAIN m.writes |->
                          IF x = w THEN [m.writes[x] EXCEPT !.state = "done", !.last = TRUE]
                          ELSE [m.writes[x] EXCEPT !.last = FALSE]],
            !.savePromise = NULL,
            !.saving = FALSE,
            !.calls = [c \in DOMAIN m.calls |->
                         IF m.calls[c].pc = "await" /\ m.calls[c].awaited = w
                           THEN [m.calls[c] EXCEPT !.pc = "ready"] ELSE m.calls[c]],
            !.ready = @ \o woken]

\* Write w is rejected by the host: the .then callback does not run, the
\* derived promise rejects, and the calls awaiting it are woken.
writeFailed(m, w) ==
  LET woken == Awaiting(m, w, 1) IN
  [m EXCEPT !.writes[w].state = "failed",
            !.calls = [c \in DOMAIN m.calls |->
                         IF m.calls[c].pc = "await" /\ m.calls[c].awaited = w
                           THEN [m.calls[c] EXCEPT !.pc = "ready"] ELSE m.calls[c]],
            !.ready = @ \o woken]

\* A callback that clears whatever status is displayed.
timerFired_clearAny(m) == clearStatus([m EXCEPT !.timers = Tail(@)])

\* A callback that forgets to clear.
timerFired_keep(m) == [m EXCEPT !.timers = Tail(@)]

\* The setTimeout callback of save(): clear the status only if it is still
\* the one this call published.
timerFired(m) ==
  LET statusID == Head(m.timers)
      m1 == [m EXCEPT !.timers = Tail(@)]
  IN IF m1.status.id = statusID THEN clearStatus(m1) ELSE m1

\* ------------------------------------------------------------ array helpers
\* Array.prototype.findIndex(x => x.id == id), 1-based; 0 stands for -1.
findIndex(s, id) ==
  IF \E i \in DOMAIN s : s[i].id = id
    THEN CHOOSE i \in DOMAIN s : s[i].id = id /\ \A j \in 1..(i - 1) : s[j].id # id
    ELSE 0

\* Array.prototype.splice(i, 1); splice(-1, 1) removes the last element.
splice(s, i) ==
  LET k == IF i = 0 THEN Len(s) ELSE i IN
  IF k = 0 THEN s ELSE SubSeq(s, 1, k - 1) \o SubSeq(s, k + 1, Len(s))

\* Array.prototype.join: undefined elements are joined as empty strings.
RECURSIVE join(_, _)
join(strs, sep) ==
  IF strs = <<>> THEN <<>>
  ELSE (IF Head(strs) = UndefinedName THEN <<>> ELSE Head(strs))
       \o (IF Len(strs) > 1 THEN sep \o join(Tail(strs), sep) ELSE <<>>)

throw(m, error) == [m EXCEPT !.exc = error]

\* ------------------------------------------------------------------- nodes
addNode(m, node) == [m EXCEPT !.nodes = Append(@, node)]

getNextIndex(m) == Len(m.nodes)

\* uuidv4() for a node: an id no node has had.
uuidv4(m) == m.created + 1

\* The node literal of the add*Node methods, with the fields the model keeps
\* (a field a variant lacks is undefined).
NewNode(m, type, parentID, fileID, contentImageFileID, name) ==
  [id |-> uuidv4(m), type |-> type, index |-> getNextIndex(m), parentID |-> parentID,
   fileID |-> fileID, contentImageFileID |-> contentImageFileID, name |-> name]

issued(m, node) == [m EXCEPT !.created = node.id]

addFile(m, file) == [m EXCEPT !.files = Append(@, file)]

addTextNode(m, parentID) ==
  LET node == NewNode(m, "text", parentID, NULL, NULL, UndefinedName) IN
  [save(addNode(issued(m, node), node)) EXCEPT !.value = node.id]

addImageNode(m, file, parentID) ==
  LET node == NewNode(m, "image", parentID, file.id, NULL, UndefinedName) IN
  [save(addNode(addFile(issued(m, node), file), node)) EXCEPT !.value = node.id]

addDirectoryNode(m, name, parentID) ==
  LET node == NewNode(m, "directory", parentID, NULL, NULL, name) IN
  [addNode(issued(m, node), node) EXCEPT !.value = node.id]

addAnchorNode(m, contentImageFileID, parentID) ==
  LET node == NewNode(m, "anchor", parentID, NULL, contentImageFileID, UndefinedName) IN
  [save(addNode(issued(m, node), node)) EXCEPT !.value = node.id]

\* -------------------------------------------------------------------- tags
\* createTag(name): tags are never removed, so the count gives a new id.
createTag(m, name) ==
  LET id == Len(m.tags) + 1 IN
  [save([m EXCEPT !.tags = Append(@, [id |-> id, name |-> name])]) EXCEPT !.value = id]

\* ------------------------------------------------------------------- files
\* files[-1] is undefined, so reading its id throws a TypeError before the
\* bridge is called.
removeFile(m, fileID) ==
  LET found == findIndex(m.files, fileID) IN
  IF found = 0 THEN throw(m, "TypeError")
  ELSE LET m1 == [m EXCEPT !.removed = Append(@, m.files[found].id)]
           m2 == [m1 EXCEPT !.files = splice(@, findIndex(m1.files, fileID))]
       IN save(m2)

\* A removal that leaves the indices of the remaining nodes as they were.
dropNode_keepIndices(m, id, index) ==
  save([m EXCEPT !.nodes = splice(m.nodes, findIndex(m.nodes, id))])

\* removeNode from the splice on: remove the node, close the gap in the
\* indices, publish and save.
dropNode(m, id, index) ==
  LET rest == splice(m.nodes, findIndex(m.nodes, id))
      newNodes == [i \in DOMAIN rest |->
                     IF rest[i].index > index
                       THEN [rest[i] EXCEPT !.index = @ - 1] ELSE rest[i]]
  IN save([m EXCEPT !.nodes = newNodes])

\* A removal that cascades to the File of an Image node only.
removeNode_imageOnly(m, id) ==
  LET foundIndex == findIndex(m.nodes, id) IN
  IF foundIndex = 0 THEN throw(m, "TypeError")
  ELSE LET found == m.nodes[foundIndex]
           m1 == IF found.type = "image" THEN removeFile(m, found.fileID) ELSE m
       IN IF m1.exc # NoError THEN m1 ELSE dropNode(m1, id, found.index)

removeNode(m, id) ==
  LET foundIndex == findIndex(m.nodes, id) IN
  IF foundIndex = 0 THEN throw(m, "TypeError")
  ELSE LET found == m.nodes[foundIndex]
           m1 == IF found.type = "image" THEN removeFile(m, found.fileID) ELSE m
           m2 == IF m1.exc = NoError /\ found.type = "anchor" /\ found.contentImageFileID # NULL
                   THEN removeFile(m1, found.contentImageFileID) ELSE m1
       IN IF m2.exc # NoError THEN m2 ELSE dropNode(m2, id, found.index)

\* Array.prototype.find(n => n.id == id): hasNode tells whether it finds one.
hasNode(m, id) == findIndex(m.nodes, id) # 0

getNode(m, id) == m.nodes[findIndex(m.nodes, id)]

getChildNodes(m, parentID) ==
  LET isChild(n) == n.parentID = parentID IN SelectSeq(m.nodes, isChild)

\* A reparenting that also moves the node to the end of the store.
setParent_moveToEnd(m, id, parentID) ==
  LET foundIndex == findIndex(m.nodes, id) IN
  IF foundIndex = 0 THEN throw(m, "TypeError")
  ELSE save([m EXCEPT !.nodes = Append(splice(m.nodes, foundIndex),
                                       [m.nodes[foundIndex] EXCEPT !.parentID = parentID])])

setParent(m, id, parentID) ==
  LET foundIndex == findIndex(m.nodes, id) IN
  IF foundIndex = 0 THEN throw(m, "TypeError")
  ELSE save([m EXCEPT !.nodes[foundIndex].parentID = parentID])

RECURSIVE getPathLoop(_, _, _, _)

\* A loop that appends each name instead of putting it in front.
getPathLoop_push(m, dirs, dirID, steps) ==
  IF dirID = NULL THEN [m EXCEPT !.path = <<"/">> \o join(dirs, <<"/">>)]
  ELSE IF ~hasNode(m, dirID) THEN throw(m, "Error")
  ELSE IF steps = 0 THEN throw(m, "diverges")
  ELSE LET found == getNode(m, dirID) IN
       getPathLoop(m, dirs \o <<found.name>>, found.parentID, steps - 1)

\* The while loop of getPath, `steps` lookups from its end.  A chain of
\* stored nodes longer than the store revisits a node: the loop then never
\* ends ("diverges").
getPathLoop(m, dirs, dirID, steps) ==
  IF dirID = NULL THEN [m EXCEPT !.path = <<"/">> \o join(dirs, <<"/">>)]
  ELSE IF ~hasNode(m, dirID) THEN throw(m, "Error")
  ELSE IF steps = 0 THEN throw(m, "diverges")
  ELSE LET found == getNode(m, dirID) IN
       getPathLoop(m, <<found.name>> \o dirs, found.parentID, steps - 1)

getPath(m, directoryID) ==
  IF directoryID = Trash THEN [m EXCEPT !.path = <<"T", "r", "a", "s", "h">>]
  ELSE getPathLoop(m, <<>>, directoryID, Len(m.nodes))

\* ------------------------------------------------------------- directories
\* String.prototype.split(sep): the pieces between the separators, empty
\* pieces included (''.split('/') is ['']).
RECURSIVE split(_, _)
split(s, sep) ==
  IF \A i \in DOMAIN s : s[i] # sep THEN <<s>>
  ELSE LET k == CHOOSE i \in DOMAIN s : s[i] = sep /\ \A j \in 1..(i - 1) : s[j] # sep
       IN <<SubSeq(s, 1, k - 1)>> \o split(SubSeq(s, k + 1, Len(s)), sep)

\* The primary and secondary collation weight of a character: letters that
\* differ in case only weigh the same, an accented letter weighs differently.
weight(c) ==
  CASE c = "A" -> "a"
    [] c = "B" -> "b"
    [] OTHER -> c

\* a.localeCompare(b, undefined, { sensitivity: 'accent' }): 0 when the two
\* strings differ at most in case.
localeCompare(a, b) ==
  IF Len(a) = Len(b) /\ \A i \in DOMAIN a : weight(a[i]) = weight(b[i]) THEN 0 ELSE 1

\* A lookup among the children of the root, whatever parentID is.
findDirectory_atRoot(m, parentID, name) ==
  LET matches(n) ==
        n.type = "directory" /\ n.parentID = NULL /\ localeCompare(n.name, name) = 0
      hits == SelectSeq(m.nodes, matches)
  IN IF hits = <<>> THEN NULL ELSE hits[1].id

\* The id of the first Directory under parentID with a matching name, or NULL.
findDirectory(m, parentID, name) ==
  LET matches(n) ==
        n.type = "directory" /\ n.parentID = parentID /\ localeCompare(n.name, name) = 0
      hits == SelectSeq(m.nodes, matches)
  IN IF hits = <<>> THEN NULL ELSE hits[1].id

\* The for loop of createDirectory call k, from the head of an iteration to
\* the next `await bridge.now()` or to the end of the call (save, return).
RECURSIVE createDirectoryLoop(_, _)
createDirectoryLoop(m, k) ==
  LET call == m.dirCalls[k] IN
  IF call.dirs = <<>>
    THEN [save(m) EXCEPT !.dirCalls[k].pc = "done",
                         !.dirCalls[k].value = call.parentID,
                         !.dirCalls[k].end = m.nodes,
                         !.value = call.parentID]
    ELSE LET found == findDirectory(m, call.parentID, Head(call.dirs)) IN
         IF found = NULL
           THEN [m EXCEPT !.dirCalls[k].pc = "now"]
           ELSE createDirectoryLoop(
                  [m EXCEPT !.dirCalls[k].parentID = found, !.dirCalls[k].dirs = Tail(@)], k)

\* createDirectory(path), called in slot k, up to its first suspension.
createDirectory(m, k, path) ==
  LET nonEmpty(d) == Len(d) > 0
      dirs == SelectSeq(split(path, "/"), nonEmpty)
  IN createDirectoryLoop(
       [m EXCEPT !.dirCalls[k] =
          [pc |-> "run", path |-> path, dirs |-> dirs, parentID |-> NULL,
           start |-> m.nodes, own |-> <<>>, end |-> <<>>, value |-> NULL]], k)

\* Call k resumed with the host's answer to bridge.now(): the node is added
\* under the parentID the call holds, and the loop goes on.
nowResolved(m, k) ==
  LET call == m.dirCalls[k]
      m1 == addDirectoryNode(m, Head(call.dirs), call.parentID)
      node == m1.nodes[Len(m1.nodes)]
  IN createDirectoryLoop(
       [m1 EXCEPT !.dirCalls[k].parentID = node.id,
                  !.dirCalls[k].dirs = Tail(@),
                  !.dirCalls[k].own = Append(@, node),
                  !.value = NULL], k)

\* ------------------------------------------------------------- loadLibrary
\* A top-level property of a parsed document: absent, an array, or a value
\* of another shape.
Absent == [kind |-> "absent", items |-> <<>>]

Array(items) == [kind |-> "array", items |-> items]

NotAnArray == [kind |-> "other", items |-> <<>>]

NodeTypes == {"text", "image", "anchor", "directory"}

\* validateLibrary(data) of ./validate, as the specification describes it:
\* it accepts a document whose nodes, files and tags are arrays where they
\* are present and whose nodes carry a known type, and throws otherwise.
validateLibrary(m, data) ==
  IF /\ data.nodes.kind # "other"
     /\ data.files.kind # "other"
     /\ data.tags.kind # "other"
     /\ \A i \in DOMAIN data.nodes.items : data.nodes.items[i].type \in NodeTypes
    THEN m
    ELSE throw(m, "ValidationError")

\* data.nodes ?? []
orEmpty(property) == IF property.kind = "absent" THEN <<>> ELSE property.items

\* loadLibrary() up to `await bridge.readLibrary()`.
loadLibrary(m) == [m EXCEPT !.loading = @ + 1]

\* A load that seeds the stores before it validates the document.
loadLibraryResumed_seedFirst(m, c) ==
  LET m1 == [m EXCEPT !.loading = @ - 1] IN
  IF ~c.json THEN throw(m1, "SyntaxError")
  ELSE validateLibrary([m1 EXCEPT !.nodes = orEmpty(c.nodes),
                                  !.files = orEmpty(c.files),
                                  !.tags = orEmpty(c.tags)], c)

\* loadLibrary() resumed with the text c the host has read: JSON.parse
\* (which throws on text that is not JSON), validateLibrary, then the three
\* stores are set.
loadLibraryResumed(m, c) ==
  LET m1 == [m EXCEPT !.loading = @ - 1] IN
  IF ~c.json THEN throw(m1, "SyntaxError")
  ELSE LET m2 == validateLibrary(m1, c) IN
       IF m2.exc # NoError THEN m2
       ELSE [m2 EXCEPT !.nodes = orEmpty(c.nodes),
                       !.files = orEmpty(c.files),
                       !.tags = orEmpty(c.tags)]

\* -------------------------------------------------------- renderer/tree.ts
\* The result [node, children] is the pair <<node with depth, children>>.
\* `stack` is the room left on the call stack: a recursion deeper than the
\* store has nodes revisits a node and ends in a RangeError.
RECURSIVE createTree(_, _, _, _)
createTree(m, parentID, depth, stack) ==
  IF stack = 0 THEN [exc |-> "RangeError", value |-> <<>>]
  ELSE IF ~hasNode(m, parentID) THEN [exc |-> "TypeError", value |-> <<>>]
  ELSE LET node == getNode(m, parentID)
           isDirectory(n) == n.type = "directory"
           dirs == SelectSeq(getChildNodes(m, parentID), isDirectory)
           subs == [i \in DOMAIN dirs |-> createTree(m, dirs[i].id, depth + 1, stack - 1)]
       IN IF \E i \in DOMAIN subs : subs[i].exc # NoError
            THEN [exc |-> subs[CHOOSE i \in DOMAIN subs :
                                  /\ subs[i].exc # NoError
                                  /\ \A j \in 1..(i - 1) : subs[j].exc = NoError].exc,
                  value |-> <<>>]
            ELSE [exc |-> NoError,
                  value |-> <<[id |-> node.id, type |-> node.type, depth |-> depth],
                              [i \in DOMAIN subs |-> subs[i].value]>>]

\* ----------------------------------------------------------------- actions
\* A caller invokes save() (tasks run to completion: no microtask is queued).
CallSave ==
  /\ ready = <<>>
  /\ CanCall(1)
  /\ LET m == save(Fresh(This)) IN
       /\ Apply(m)
       /\ ret' = Outcome("save", NULL, m)

\* ---------------------------------------------------------- handler calls
\* The thread is not stuck in a loop that never ends, and no microtask is
\* queued; there is room in the log for the k save() calls the handler makes.
Callable(k) == ret.exc # "diverges" /\ ready = <<>> /\ CanCall(k)

Return(op, arg, m) == Apply(m) /\ ret' = Outcome(op, arg, m)

NodeIDs == {nodes[i].id : i \in DOMAIN nodes}

DirectoryIDs == {nodes[i].id : i \in {j \in DOMAIN nodes : nodes[j].type = "directory"}}

AddTextNode(parentID) ==
  /\ Callable(1)
  /\ created < MaxNodes
  /\ Return("addTextNode", parentID, addTextNode(Fresh(This), parentID))

AddImageNode(fileID, parentID) ==
  /\ Callable(1)
  /\ created < MaxNodes
  /\ Len(files) < MaxFiles
  /\ Return("addImageNode", parentID, addImageNode(Fresh(This), [id |-> fileID], parentID))

AddAnchorNode(contentImageFileID, parentID) ==
  /\ Callable(1)
  /\ created < MaxNodes
  /\ Return("addAnchorNode", parentID, addAnchorNode(Fresh(This), contentImageFileID, parentID))

AddDirectoryNode(name, parentID) ==
  /\ Callable(0)
  /\ created < MaxNodes
  /\ Return("addDirectoryNode", parentID, addDirectoryNode(Fresh(This), name, parentID))

AddFile(fileID) ==
  /\ Callable(0)
  /\ Len(files) < MaxFiles
  /\ Return("addFile", fileID, addFile(Fresh(This), [id |-> fileID]))

RemoveNode(id) ==
  /\ Callable(2)
  /\ Return("removeNode", id, removeNode(Fresh(This), id))

RemoveFile(fileID) ==
  /\ Callable(1)
  /\ Return("removeFile", fileID, removeFile(Fresh(This), fileID))

SetParent(id, parentID) ==
  /\ Callable(1)
  /\ Return("setParent", id, setParent(Fresh(This), id, parentID))

GetPath(directoryID) ==
  /\ Callable(0)
  /\ Return("getPath", directoryID, getPath(Fresh(This), directoryID))

CreateTree(rootID) ==
  /\ Callable(0)
  /\ LET t == createTree(This, rootID, 0, Len(nodes) + 1) IN
       Return("createTree", rootID, [Fresh(This) EXCEPT !.exc = t.exc, !.tree = t.value])

CreateTag(name) ==
  /\ Callable(1)
  /\ Len(tags) < MaxTags
  /\ Return("createTag", NULL, createTag(Fresh(This), name))

\* createDirectory(path) is called; slot k keeps the call.
CreateDirectory(k, path) ==
  /\ Callable(1)
  /\ dirCalls[k].pc \in {"idle", "done"}
  /\ Return("createDirectory", k, createDirectory(Fresh(This), k, path))

\* The host answers the bridge.now() that call k awaits.
NowResolves(k) ==
  /\ Callable(1)
  /\ dirCalls[k].pc = "now"
  /\ created < MaxNodes
  /\ Return("createDirectory", k, nowResolved(Fresh(This), k))

\* loadLibrary() is called and waits for the host to read the document.
LoadLibrary ==
  /\ Callable(0)
  /\ loading < MaxLoads
  /\ Return("loadLibrary", NULL, loadLibrary(This))

\* The host hands the text c to a waiting loadLibrary call, which settles.
ReadLibraryResolves(c) ==
  /\ Callable(0)
  /\ loading > 0
  /\ Return("loadLibrary settled", NULL, loadLibraryResumed(This, c))

\* The host reports write w as completed.
WriteComplete(w) ==
  /\ ret.exc # "diverges"
  /\ ready = <<>>
  /\ w \in PendingWrites(This)
  /\ Apply(writeDone(This, w))
  /\ UNCHANGED ret

\* The host reports write w as failed.
WriteFails(w) ==
  /\ ret.exc # "diverges"
  /\ ready = <<>>
  /\ w \in PendingWrites(This)
  /\ Apply(writeFailed(This, w))
  /\ UNCHANGED ret

\* The continuation of a save() call that was awaiting runs.
ResumeSave ==
  /\ ret.exc # "diverges"
  /\ ready # <<>>
  /\ Apply(resumeSave(This))
  /\ UNCHANGED ret

\* The oldest pending timer fires.
TimerFire ==
  /\ ret.exc # "diverges"
  /\ ready = <<>>
  /\ timers # <<>>
  /\ Apply(timerFired(This))
  /\ UNCHANGED ret

Init ==
  /\ nodes = <<>>
  /\ files = <<>>
  /\ tags = <<>>
  /\ saving = FALSE
  /\ savePromise = NULL
  /\ status = NoStatus
  /\ writes = <<>>
  /\ calls = <<>>
  /\ ready = <<>>
  /\ timers = <<>>
  /\ uuid = 0
  /\ created = 0
  /\ dirCalls = [k \in DirCallSlots |-> NoDirCall]
  /\ loading = 0
  /\ ret = [op |-> "new", arg |-> NULL, exc |-> NoError, removed |-> <<>>,
            value |-> NULL, path |-> <<>>, tree |-> <<>>]

\* --------------------------------------------------------------- the stores
\* One caller at a time: a handler is called once the save coordinator has
\* settled from the previous call.

\* Nodes of every type and their File records, all at the root.
Next ==
  \/ Quiescent(This) /\ AddTextNode(NULL)
  \/ \E f \in FileIDs : Quiescent(This) /\ AddImageNode(f, NULL)
  \/ \E f \in {NULL} \cup FileIDs : Quiescent(This) /\ AddAnchorNode(f, NULL)
  \/ Quiescent(This) /\ AddDirectoryNode(<<"a">>, NULL)
  \/ \E f \in FileIDs : Quiescent(This) /\ AddFile(f)
  \/ \E id \in NodeIDs : Quiescent(This) /\ RemoveNode(id)
  \/ \E f \in FileIDs : Quiescent(This) /\ RemoveFile(f)
  \/ \E w \in DOMAIN writes : WriteComplete(w)
  \/ ResumeSave
  \/ TimerFire

Spec == Init /\ [][Next]_vars

\* The forest: Text and Directory nodes, created under the root or under a
\* stored Directory, reparented to any stored node or to the Trash, removed,
\* and read by getPath and createTree.  Each of these handlers calls save()
\* at most once, so with one caller at a time no save() call has to wait.
TreeNext ==
  \/ \E p \in {NULL} \cup DirectoryIDs : Quiescent(This) /\ AddTextNode(p)
  \/ \E name \in DirNames, p \in {NULL} \cup DirectoryIDs : Quiescent(This) /\ AddDirectoryNode(name, p)
  \/ \E id \in NodeIDs : Quiescent(This) /\ RemoveNode(id)
  \/ \E id \in NodeIDs, p \in NodeIDs \cup {Trash} : Quiescent(This) /\ SetParent(id, p)
  \/ \E d \in NodeIDs \cup {Trash} : Quiescent(This) /\ GetPath(d)
  \/ \E d \in NodeIDs : Quiescent(This) /\ CreateTree(d)
  \/ \E w \in DOMAIN writes : WriteComplete(w)
  \/ TimerFire

TreeSpec == Init /\ [][TreeNext]_vars

\* The forest with every new parent a stored Directory: nodes are created
\* under the root or under a stored Directory and reparented under a stored
\* Directory only.
ForestNext ==
  \/ \E p \in {NULL} \cup DirectoryIDs : Quiescent(This) /\ AddTextNode(p)
  \/ \E name \in DirNames, p \in {NULL} \cup DirectoryIDs : Quiescent(This) /\ AddDirectoryNode(name, p)
  \/ \E id \in NodeIDs : Quiescent(This) /\ RemoveNode(id)
  \/ \E id \in NodeIDs, p \in DirectoryIDs : Quiescent(This) /\ SetParent(id, p)
  \/ \E d \in NodeIDs : Quiescent(This) /\ GetPath(d)
  \/ \E d \in NodeIDs : Quiescent(This) /\ CreateTree(d)
  \/ \E w \in DOMAIN writes : WriteComplete(w)
  \/ TimerFire

ForestSpec == Init /\ [][ForestNext]_vars

\* Mutations that save, issued at any moment: their save() calls and the
\* host writes overlap.
PersistNext ==
  \/ AddTextNode(NULL)
  \/ \E id \in NodeIDs : RemoveNode(id)
  \/ CreateTag(<<"t">>)
  \/ \E w \in DOMAIN writes : WriteComplete(w)
  \/ ResumeSave
  \/ TimerFire

PersistSpec == Init /\ [][PersistNext]_vars

\* createDirectory calls, which may overlap, and removals.
Paths ==
  {<<>>,
   <<"a", "/", "b">>,
   <<"/", "A", "/", "/", "b", "/">>,
   <<"a", "/", "a">>}

DirNext ==
  \/ \E k \in DirCallSlots, path \in Paths : Quiescent(This) /\ CreateDirectory(k, path)
  \/ \E k \in DirCallSlots : NowResolves(k)
  \/ \E id \in NodeIDs : Quiescent(This) /\ RemoveNode(id)
  \/ \E w \in DOMAIN writes : WriteComplete(w)
  \/ ResumeSave
  \/ TimerFire

DirSpec == Init /\ [][DirNext]_vars

\* Loading over a store that holds nodes and files.
\* A stored node of a document (its id is none a running Model issues).
DocNode(type) ==
  [id |-> MaxNodes + 1, type |-> type, index |-> 0, parentID |-> NULL,
   fileID |-> NULL, contentImageFileID |-> NULL, name |-> UndefinedName]

\* The texts the host may hold: text that is not JSON, {}, documents with
\* arrays, a document whose nodes is not an array, one whose files is not,
\* and one with a node of an unknown type.
Documents ==
  {[json |-> FALSE, nodes |-> Absent, files |-> Absent, tags |-> Absent],
   [json |-> TRUE, nodes |-> Absent, files |-> Absent, tags |-> Absent],
   [json |-> TRUE, nodes |-> Array(<<DocNode("text")>>), files |-> Array(<<[id |-> 2]>>), tags |-> Absent],
   [json |-> TRUE, nodes |-> Array(<<>>), files |-> Absent, tags |-> Array(<<[id |-> 1, name |-> <<"t">>]>>)],
   [json |-> TRUE, nodes |-> NotAnArray, files |-> Array(<<>>), tags |-> Array(<<>>)],
   [json |-> TRUE, nodes |-> Array(<<DocNode("text")>>), files |-> NotAnArray, tags |-> Absent],
   [json |-> TRUE, nodes |-> Array(<<DocNode("note")>>), files |-> Array(<<>>), tags |-> Array(<<>>)]}

LoadNext ==
  \/ Quiescent(This) /\ AddTextNode(NULL)
  \/ \E f \in FileIDs : Quiescent(This) /\ AddFile(f)
  \/ LoadLibrary
  \/ \E c \in Documents : ReadLibraryResolves(c)
  \/ \E w \in DOMAIN writes : WriteComplete(w)
  \/ TimerFire

LoadSpec == Init /\ [][LoadNext]_vars

\* ------------------------------------------------ the save coordinator alone
SaveNext ==
  \/ CallSave
  \/ \E w \in DOMAIN writes : WriteComplete(w)
  \/ ResumeSave
  \/ TimerFire

SaveSpec == Init /\ [][SaveNext]_vars

\* The save coordinator with host writes that may fail.
FailNext ==
  \/ SaveNext
  \/ \E w \in DOMAIN writes : WriteFails(w)

FailSpec == Init /\ [][FailNext]_vars

\* Every host write completes and every queued continuation runs.
FairSaveSpec ==
  /\ SaveSpec
  /\ \A w \in 1..(MaxSaves + 1) : WF_vars(WriteComplete(w))
  /\ WF_vars(ResumeSave)
  /\ WF_vars(TimerFire)

\* -------------------------------------------------------------- properties
StoredFileIDs == {files[i].id : i \in DOMAIN files}

\* C2: the index values of the N stored nodes are exactly 0 .. N-1, each
\* carried by one node.
C2_IndexDense ==
  /\ {nodes[i].index : i \in DOMAIN nodes} = 0..(Len(nodes) - 1)
  /\ \A i, j \in DOMAIN nodes : i # j => nodes[i].index # nodes[j].index

\* A removal has closed a gap: two nodes created after the removed one remain.
C2_Witness ==
  /\ ret.op = "removeNode"
  /\ ret.exc = NoError
  /\ Len(nodes) >= 2
  /\ \A i \in DOMAIN nodes : nodes[i].id > ret.arg

\* C3: every node with a parentID refers to a stored Directory.
C3_ParentsResolve ==
  \A i \in DOMAIN nodes :
    nodes[i].parentID # NULL =>
      \E j \in DOMAIN nodes : nodes[j].id = nodes[i].parentID /\ nodes[j].type = "directory"

\* The file id a node owns: fileID of an Image, contentImageFileID of an Anchor.
OwnedFile(n) ==
  IF n.type = "image" THEN n.fileID
  ELSE IF n.type = "anchor" THEN n.contentImageFileID
  ELSE NULL

C5_RemoveFileAfterNode ==
  [][\A f \in FileIDs :
       (/\ ret.op = "removeNode"
        /\ ret.removed = <<f>>
        /\ f \notin StoredFileIDs
        /\ RemoveFile(f))
       => (ret'.exc = NoError /\ UNCHANGED <<nodes, files, tags>>)]_vars

\* ------------------------------------------------- the forest, as a relation
ParentOf(id) == getNode(This, id).parentID

\* Where the parent chain of id ends: at the root, at an id that is not
\* stored, or nowhere (it runs into a cycle).
RECURSIVE ChainEnd(_, _)
ChainEnd(id, fuel) ==
  IF id = NULL THEN "root"
  ELSE IF id \notin NodeIDs THEN "missing"
  ELSE IF fuel = 0 THEN "cycle"
  ELSE ChainEnd(ParentOf(id), fuel - 1)

Acyclic == \A id \in NodeIDs : ChainEnd(id, Len(nodes)) # "cycle"

\* The stored nodes on the parent chain of id, id included.
RECURSIVE ChainOf(_, _)
ChainOf(id, fuel) ==
  IF id = NULL \/ id \notin NodeIDs \/ fuel = 0 THEN {}
  ELSE {id} \cup ChainOf(ParentOf(id), fuel - 1)

\* The number of parent links from id up to its ancestor r.
RECURSIVE Distance(_, _)
Distance(id, r) == IF id = r THEN 0 ELSE 1 + Distance(ParentOf(id), r)

\* "/" and the name of every node from the root down to id (a node without
\* a name contributes an empty name).
RECURSIVE PathFromRoot(_)
PathFromRoot(id) ==
  LET n == getNode(This, id) IN
  (IF n.parentID = NULL THEN <<>> ELSE PathFromRoot(n.parentID))
    \o <<"/">> \o (IF n.name = UndefinedName THEN <<>> ELSE n.name)

\* C8: getPath('trash') is "Trash" whatever is stored; for an id whose parent
\* chain consists of stored nodes up to the root, getPath returns "/" and the
\* names on the chain, root first, joined by "/"; it raises an error exactly
\* when the chain meets an id that is not stored; it changes no store.
C8_GetPath ==
  [][\A d \in NodeIDs \cup {Trash} :
       GetPath(d) =>
         /\ UNCHANGED <<nodes, files, tags>>
         /\ IF d = Trash
              THEN ret'.exc = NoError /\ ret'.path = <<"T", "r", "a", "s", "h">>
              ELSE /\ (ret'.exc = "Error") <=> (ChainEnd(d, Len(nodes)) = "missing")
                   /\ ChainEnd(d, Len(nodes)) = "root" =>
                        (ret'.exc = NoError /\ ret'.path = PathFromRoot(d))]_vars

\* The path of a directory two levels below the root has been resolved.
C8_Witness ==
  /\ ret.op = "getPath"
  /\ ret.exc = NoError
  /\ ret.path = <<"/", "a", "/", "b", "/", "a">>
  /\ Len(nodes) = 3

\* The child Directories of id, in store order.
ChildDirectories(id) ==
  LET isChildDirectory(n) == n.type = "directory" /\ n.parentID = id IN
  SelectSeq(nodes, isChildDirectory)

\* t is the tree of Directory id at the given depth: its node, then one
\* subtree per child Directory in store order, each one level deeper.
RECURSIVE WellBuilt(_, _, _)
WellBuilt(t, id, depth) ==
  /\ t[1].id = id
  /\ t[1].type = "directory"
  /\ t[1].depth = depth
  /\ Len(t[2]) = Len(ChildDirectories(id))
  /\ \A i \in DOMAIN t[2] : WellBuilt(t[2][i], ChildDirectories(id)[i].id, depth + 1)

\* The nodes of a tree, parents before children.
RECURSIVE Flatten(_)
RECURSIVE FlattenAll(_)
Flatten(t) == <<t[1]>> \o FlattenAll(t[2])
FlattenAll(ts) == IF ts = <<>> THEN <<>> ELSE Flatten(Head(ts)) \o FlattenAll(Tail(ts))

\* The Directories that have r on their parent chain, r included.
DirectoriesBelow(r) == {d \in DirectoryIDs : r \in ChainOf(d, Len(nodes))}

\* C9: on an acyclic store createTree(model, rootID) of a stored Directory
\* returns the root at depth 0 with one subtree per child Directory, in store
\* order, each built the same way one level deeper; only Directories appear,
\* and every Directory reachable from rootID through parentID links appears
\* exactly once, at the depth of its distance from rootID.
C9_CreateTree ==
  [][\A r \in DirectoryIDs :
       (Acyclic /\ CreateTree(r)) =>
         /\ ret'.exc = NoError
         /\ WellBuilt(ret'.tree, r, 0)
         /\ LET flat == Flatten(ret'.tree) IN
              /\ {flat[i].id : i \in DOMAIN flat} = DirectoriesBelow(r)
              /\ \A i, j \in DOMAIN flat : i # j => flat[i].id # flat[j].id
              /\ \A i \in DOMAIN flat : flat[i].depth = Distance(flat[i].id, r)]_vars

\* ------------------------------------------------------- createDirectory
\* The non-empty segments of a path: its maximal runs of characters other
\* than "/".
SegmentCount(path) ==
  Cardinality({i \in DOMAIN path : path[i] # "/" /\ (i = 1 \/ path[i - 1] = "/")})

\* Call k has returned, and from its call to its return the node store
\* changed by the nodes it created and by nothing else.
RanAlone(k) ==
  /\ dirCalls[k].pc = "done"
  /\ dirCalls[k].end = dirCalls[k].start \o dirCalls[k].own

\* No stored Directory has a name matching a segment of the path.
NoMatchingDirectory(store, path) ==
  \A i \in DOMAIN store :
    store[i].type = "directory" =>
      \A d \in {seg \in {split(path, "/")[j] : j \in DOMAIN split(path, "/")} : seg # <<>>} :
        localeCompare(store[i].name, d) # 0

\* C7: when a createDirectory call runs to completion and a second call with
\* the same path then runs on the store the first one left, each without
\* another mutation during it, the first call creates at most one Directory
\* per non-empty segment of the path (exactly one per segment when no stored
\* Directory matched a segment), the second call creates no node, and both
\* return the same leaf id.
C7_CreateDirectoryIdempotent ==
  \A k1, k2 \in DirCallSlots :
    (/\ k1 # k2
     /\ RanAlone(k1)
     /\ RanAlone(k2)
     /\ dirCalls[k2].path = dirCalls[k1].path
     /\ dirCalls[k2].start = dirCalls[k1].end)
    => /\ Len(dirCalls[k1].own) <= SegmentCount(dirCalls[k1].path)
       /\ \A i \in DOMAIN dirCalls[k1].own : dirCalls[k1].own[i].type = "directory"
       /\ NoMatchingDirectory(dirCalls[k1].start, dirCalls[k1].path)
            => Len(dirCalls[k1].own) = SegmentCount(dirCalls[k1].path)
       /\ dirCalls[k2].own = <<>>
       /\ dirCalls[k2].end = dirCalls[k2].start
       /\ dirCalls[k2].value = dirCalls[k1].value

\* "/A//b/" has been created twice in a row on an empty store: two
\* Directories by the first call, none by the second, the same leaf returned.
C7_Witness ==
  /\ RanAlone(1)
  /\ RanAlone(2)
  /\ dirCalls[1].path = <<"/", "A", "/", "/", "b", "/">>
  /\ dirCalls[2].path = dirCalls[1].path
  /\ dirCalls[1].start = <<>>
  /\ Len(dirCalls[1].own) = 2
  /\ dirCalls[2].start = dirCalls[1].end
  /\ dirCalls[2].own = <<>>
  /\ dirCalls[2].value = dirCalls[1].value
  /\ dirCalls[1].value # NULL

\* ------------------------------------------------------------ loadLibrary
\* C10: when the text read by loadLibrary does not parse or validation
\* rejects the document, the load fails and nodes, files and tags are left
\* exactly as they were; when validation accepts it the load succeeds and
\* each store is replaced by the document's array, or by the empty array
\* where the document has none.
C10_LoadValidatesFirst ==
  [][\A c \in Documents :
       ReadLibraryResolves(c) =>
         IF c.json /\ validateLibrary(This, c).exc = NoError
           THEN /\ ret'.exc = NoError
                /\ nodes' = (IF c.nodes.kind = "absent" THEN <<>> ELSE c.nodes.items)
                /\ files' = (IF c.files.kind = "absent" THEN <<>> ELSE c.files.items)
                /\ tags' = (IF c.tags.kind = "absent" THEN <<>> ELSE c.tags.items)
           ELSE /\ ret'.exc # NoError
                /\ UNCHANGED <<nodes, files, tags>>]_vars

\* A load has failed in validation over a store that holds two nodes and a
\* File record, and they are still there.
C10_Witness ==
  /\ ret.op = "loadLibrary settled"
  /\ ret.exc = "ValidationError"
  /\ Len(nodes) = 2
  /\ \A i \in DOMAIN nodes : nodes[i].id <= MaxNodes
  /\ Len(files) = 1

\* C1: at most one bridge.writeLibrary call is in flight at any instant.
C1_AtMostOneWriteInFlight == Cardinality(PendingWrites(This)) <= 1

\* The host writes started by save() call c.
WritesBy(c) == {w \in DOMAIN writes : writes[w].by = c}

AllCallsDone == \A c \in DOMAIN calls : calls[c].pc = "done"

\* C6: with every host write completing, each of the N save() calls issued
\* in a busy period eventually starts exactly one host write (none before it
\* has run, never a second one), so N writes are performed in total and no
\* call is dropped, merged or left waiting.
C6_EveryCallWritesOnce ==
  /\ [](\A c \in DOMAIN calls :
          Cardinality(WritesBy(c)) = (IF calls[c].pc = "done" THEN 1 ELSE 0))
  /\ [](AllCallsDone => Len(writes) = Len(calls))
  /\ \A c \in 1..MaxSaves :
        (c <= Len(calls)) ~> (c <= Len(calls) /\ calls[c].pc = "done")

\* Two calls had to wait for a write in flight, and all calls have written.
C6_Witness ==
  /\ \E c, d \in DOMAIN calls : c # d /\ calls[c].awaited # NULL /\ calls[d].awaited # NULL
  /\ AllCallsDone
  /\ PendingWrites(This) = {}
  /\ Len(writes) = Len(calls)

\* ----------------------------------------------------------- failing writes
\* C11: when the host write started by a save() call fails, the promise
\* returned by that call rejects, and the call starts no second write.
C11_RejectionPropagates ==
  /\ \A w \in DOMAIN writes :
       writes[w].state = "failed" => calls[writes[w].by].pc = "rejected"
  /\ \A c \in DOMAIN calls : Cardinality(WritesBy(c)) <= 1

\* C12: a save() call has published its "Saved!" status (it holds the id of
\* that status) only once the host write it started has completed.
C12_SavedAfterWriteCompleted ==
  \A c \in DOMAIN calls :
    calls[c].statusID # NULL =>
      /\ WritesBy(c) # {}
      /\ \A w \in WritesBy(c) : writes[w].state = "done"

\* ------------------------------------------------------------------ setParent
\* C13: setParent(id, newParentID) on a stored node changes the parentID of
\* that node and nothing else: the node's other fields, the number and order
\* of the nodes, every other node, the files and the tags are as before, and
\* one save() call is made.
C13_SetParentFrame ==
  [][\A id \in NodeIDs, p \in NodeIDs \cup {Trash} :
       (ret'.op = "setParent" /\ ret'.arg = id /\ SetParent(id, p)) =>
         LET k == CHOOSE i \in DOMAIN nodes : nodes[i].id = id IN
         /\ ret'.exc = NoError
         /\ Len(nodes') = Len(nodes)
         /\ nodes'[k] = [nodes[k] EXCEPT !.parentID = p]
         /\ \A i \in DOMAIN nodes : i # k => nodes'[i] = nodes[i]
         /\ files' = files
         /\ tags' = tags
         /\ Len(calls') = Len(Fresh(This).calls) + 1]_vars

\* The first of three nodes has been moved under a Directory stored after it.
C13_Witness ==
  /\ ret.op = "setParent"
  /\ ret.exc = NoError
  /\ Len(nodes) = 3
  /\ nodes[1].id = ret.arg
  /\ nodes[1].parentID \in DirectoryIDs \ {ret.arg}
  /\ Len(calls) = 1

\* C14: the parentID relation is acyclic (the parent chain of every node ends
\* after finitely many links), so no getPath call runs forever and no
\* createTree call exhausts the stack.
C14_ParentRelationAcyclic ==
  /\ Acyclic
  /\ ret.exc \notin {"diverges", "RangeError"}

\* --------------------------------------------------------------- the status
\* C15: the timer scheduled by a save() call, when it fires, changes the
\* status only by clearing it, and only if the status displayed at that
\* moment is the "Saved!" status that same call published; any other status
\* is left as it is.
C15_TimerClearsOwnStatusOnly ==
  [][TimerFire =>
       \E c \in DOMAIN calls :
         /\ calls[c].statusID = Head(timers)
         /\ status' # status =>
              /\ status' = NoStatus
              /\ status = [id |-> calls[c].statusID, message |-> "Saved!"]
         /\ status.id # calls[c].statusID => status' = status]_vars

\* The timer of an older save() call has fired and the "Saved!" status of a
\* later call is still displayed.
C15_Witness ==
  /\ status.message = "Saved!"
  /\ \E c \in DOMAIN calls :
       /\ calls[c].statusID # NULL
       /\ calls[c].statusID < status.id
       /\ \A t \in DOMAIN timers : timers[t] # calls[c].statusID

AnyWriteFailed == \E w \in DOMAIN writes : writes[w].state = "failed"

\* C16: once a host write has been rejected, the saving flag is true and the
\* in-flight handle is set in every later state, no further host write is
\* started, and no save() call that had not finished by then completes.
C16_FailureLeavesGuardSet ==
  [][/\ (\E w \in DOMAIN writes' : writes'[w].state = "failed") =>
          (saving' = TRUE /\ savePromise' # NULL)
     /\ AnyWriteFailed =>
          /\ Len(writes') = Len(writes)
          /\ \A c \in DOMAIN calls' :
               calls'[c].pc = "done" => (c \in DOMAIN calls /\ calls[c].pc = "done")]_vars

\* C17: whenever a host write is in flight the saving flag is true and the
\* in-flight handle is set (they are cleared only when no write remains in
\* flight).
C17_GuardSetWhileWriting ==
  PendingWrites(This) # {} => (saving = TRUE /\ savePromise # NULL)

\* ------------------------------------------- overlapping createDirectory
\* C18: whatever the interleaving of createDirectory calls, no parent has
\* two Directory children with matching names (each segment of a path is
\* created once, also by two overlapping calls with the same path).
C18_NoDuplicateDirectory ==
  \A i, j \in DOMAIN nodes :
    (/\ i # j
     /\ nodes[i].type = "directory"
     /\ nodes[j].type = "directory"
     /\ nodes[i].parentID = nodes[j].parentID)
    => localeCompare(nodes[i].name, nodes[j].name) # 0

\* ------------------------------------------------------------- persistence
\* C19: once every save() call has run and no write is in flight, the
\* document of the write the host completed last is the current nodes, files
\* and tags.
C19_LastWriteIsCurrent ==
  (/\ writes # <<>>
   /\ AllCallsDone
   /\ ready = <<>>
   /\ PendingWrites(This) = {})
  => \E w \in DOMAIN writes :
       /\ writes[w].last
       /\ writes[w].doc.nodes = nodes
       /\ writes[w].doc.files = files
       /\ writes[w].doc.tags = tags

\* C20: if from some point on no save() call is issued, while every host
\* write completes and every timer fires, then from some point on the status
\* is undefined for good.
C20_StatusEventuallyUndefined ==
  <>[][~CallSave]_vars => <>[](status = NoStatus)

\* Three save() calls of one busy period have written, their timers have
\* fired and no status is displayed.
C20_Witness ==
  /\ Len(calls) = 3
  /\ AllCallsDone
  /\ PendingWrites(This) = {}
  /\ timers = <<>>
  /\ status = NoStatus

====
